---- MODULE Spec2Model ----
(***************************************************************************)
(* Model of the location-aware GoogleMap widget                            *)
(* (src/js/widgets/GoogleMap.js) together with the Geolocator session it   *)
(* drives and the google.maps rendering surface it draws on.               *)
(*                                                                         *)
(* Every handler of GoogleMap is an operator over a record g holding the   *)
(* widget's fields; the operators are composed in the order of the         *)
(* statements of the source, and each call made on the rendering surface   *)
(* or on a host callback is appended to g.trace in the order it is made.   *)
(***************************************************************************)
EXTENDS Integers, Sequences, FiniteSets, TLC

----------------------------------------------------------------------------
(* Bounds *)

\* coordinates are <<lat, lng>>; index 0 is the default map centre (0, 0),
\* index 1 is (40, -74)
MaxCoordIndex == 1

\* one-shot position requests the provider may still answer
MaxPending == 1

\* HTTP requests of a ToggleButton the transport accepts at a time
MaxInFlight == 2

\* largest page incrementPage is followed to
MaxPage == 3

\* point-of-interest markers the host page creates
MaxMarkers == 2

\* addMarkerClickListener calls followed on one marker
MaxListeners == 2

----------------------------------------------------------------------------
(* Program constants *)

focusedZoomLevel == 15

minFocusedZoomLevel == 5

geolocatorWaitTimeout == 3000

mapOptions == [center |-> <<0, 0>>, zoom |-> 2]

----------------------------------------------------------------------------
(* Values *)

Coords == {<<40 * i, (0 - 74) * i>> : i \in 0..MaxCoordIndex}

NoCoord == <<>>

\* zoom levels the user can leave the camera at: the initial one, the
\* smallest focused one and the focused one
ZoomLevels == {mapOptions.zoom, minFocusedZoomLevel, focusedZoomLevel}

ErrorMessages == {"PERMISSION_DENIED", "POSITION_UNAVAILABLE"}

NullMap ==
    [isNull |-> TRUE, center |-> NoCoord, zoom |-> 0,
     boundsKnown |-> FALSE, bounds |-> {}]

NullMarker == [isNull |-> TRUE, onMap |-> FALSE, position |-> NoCoord]

NullCircle == [isNull |-> TRUE, visible |-> FALSE, center |-> NoCoord]

\* what a host callback sees of the user marker and the circle when it runs
NoSnapshot == [taken |-> FALSE, userMarker |-> NullMarker,
               userLocationCircle |-> NullCircle]

VARIABLES
    map,                 \* GoogleMap.map: the google.maps.Map, or null
    userMarker,          \* GoogleMap.userMarker
    userLocationCircle,  \* GoogleMap.userLocationCircle
    markersConstructed,  \* number of `new google.maps.Marker` for the user
    hostCallbacks,       \* TRUE when the host page has set the on...Callback
    session,             \* Geolocator: Idle | AwaitingPermission | Tracking
    mode,                \* Geolocator: none | once | watch
    timerArmed,          \* Geolocator: permission-timeout timer armed
    currentPosition,     \* Geolocator: last accepted coordinate or NoCoord
    pending,             \* provider: one-shot requests not yet answered
    last,                \* the last operation: [event, arg, threw]
    trace,               \* calls made by the last operation, in order
    hostSaw,             \* marker/circle as seen by the host callback
    sinceRequest,        \* only errors/timeouts since the last request made
    serverState,         \* ToggleButton.serverState
    selectedState,       \* ToggleButton.selectedState
    isRequestInProgress, \* ToggleButton.isRequestInProgress
    httpMethod,          \* ToggleButton.httpMethod
    toggleCallbacks,     \* TRUE when the host has set the ToggleButton callbacks
    requests,            \* $.ajax: requests sent and not yet answered
    handled,             \* $.ajax: the answered request, until complete runs
    toggleLast,          \* the last ToggleButton step: [event, data, overlapped]
    page,                \* HttpQueryStringBuilder.page
    queryParameters,     \* HttpQueryStringBuilder.queryParameters.objects
    queryString,         \* what buildQueryString returned, if it was the last call
    builderLast,         \* the last HttpQueryStringBuilder call
    pointMarkers,        \* the host's markers: on the map or not, click listeners
    onMarkerClickCallback, \* TRUE iff GoogleMap.onMarkerClickCallback is a function
    markerLast           \* the last marker step: [event, marker, calls]

\* GoogleMap and its Geolocator
mapVars == <<map, userMarker, userLocationCircle, markersConstructed,
             hostCallbacks, session, mode, timerArmed, currentPosition,
             pending, last, trace, hostSaw, sinceRequest>>

\* ToggleButton and its requests
toggleVars == <<serverState, selectedState, isRequestInProgress, httpMethod,
                toggleCallbacks, requests, handled, toggleLast>>

\* HttpQueryStringBuilder
builderVars == <<page, queryParameters, queryString, builderLast>>

\* point-of-interest markers of a GoogleMap
markerVars == <<pointMarkers, onMarkerClickCallback, markerLast>>

vars == <<mapVars, toggleVars, builderVars, markerVars>>

view == <<map, userMarker, userLocationCircle>>

----------------------------------------------------------------------------
(* The widget's fields at the start of an operation *)

Fields ==
    [map |-> map, userMarker |-> userMarker,
     userLocationCircle |-> userLocationCircle,
     constructed |-> markersConstructed,
     session |-> session, mode |-> mode, timerArmed |-> timerArmed,
     currentPosition |-> currentPosition, pending |-> pending,
     trace |-> <<>>, saw |-> NoSnapshot, threw |-> FALSE]

Call(g, op, arg) == [g EXCEPT !.trace = Append(@, [op |-> op, arg |-> arg])]

\* a host callback: $.isFunction(cb) guards the call; the callback observes
\* the marker and the circle as they are at that moment
HostCallback(g, op, arg) ==
    IF hostCallbacks
    THEN Call([g EXCEPT !.saw = [taken |-> TRUE, userMarker |-> g.userMarker,
                                 userLocationCircle |-> g.userLocationCircle]],
              op, arg)
    ELSE g

----------------------------------------------------------------------------
(* GoogleMap: camera *)

\* `this.map == null || !this.map instanceof google.maps.Map`: the second
\* operand is (!this.map) instanceof ..., false for every map
zoomMap(g, zoom) ==
    IF g.map.isNull
    THEN g
    ELSE Call([g EXCEPT !.map.zoom = zoom], "map.setZoom", <<zoom>>)

centerMap(g, c) ==
    IF g.map.isNull
    THEN g
    ELSE Call([g EXCEPT !.map.center = c,
                        !.map.bounds = IF g.map.boundsKnown THEN {c} ELSE {}],
              "map.panTo", c)

\* focusOnLocation with the zoom test written `<=`
focusOnLocation_ZoomInclusive(g, c) ==
    IF g.map.isNull
    THEN g
    ELSE IF ~g.map.boundsKnown
         THEN [g EXCEPT !.threw = TRUE]
         ELSE IF c \notin g.map.bounds \/ g.map.zoom <= minFocusedZoomLevel
              THEN centerMap(zoomMap(g, focusedZoomLevel), c)
              ELSE g

\* this.map.getBounds() is undefined until the surface has laid the map
\* out; .contains on it raises a TypeError
focusOnLocation(g, c) ==
    IF g.map.isNull
    THEN g
    ELSE IF ~g.map.boundsKnown
         THEN [g EXCEPT !.threw = TRUE]
         ELSE IF c \notin g.map.bounds \/ g.map.zoom < minFocusedZoomLevel
              THEN centerMap(zoomMap(g, focusedZoomLevel), c)
              ELSE g

----------------------------------------------------------------------------
(* GoogleMap: user marker and accuracy circle *)

\* removeUserPosition that also drops the reference to the marker
removeUserPosition_ClearsReference(g) ==
    IF ~g.userMarker.isNull
    THEN Call([g EXCEPT !.userMarker = NullMarker], "userMarker.setMap", <<>>)
    ELSE g

removeUserPosition(g) ==
    IF ~g.userMarker.isNull
    THEN Call([g EXCEPT !.userMarker.onMap = FALSE], "userMarker.setMap", <<>>)
    ELSE g

\* setUserMarker without the check that the map exists
setUserMarker_NoMapGuard(g, c) ==
    LET g1 == IF g.userMarker.isNull
              THEN Call([g EXCEPT !.userMarker.isNull = FALSE,
                                  !.constructed = @ + 1],
                        "new google.maps.Marker", <<>>)
              ELSE g
        g2 == Call([g1 EXCEPT !.userMarker.onMap = ~g.map.isNull],
                   "userMarker.setMap", <<"map">>)
        g3 == Call(g2, "userMarker.setAnimation", <<"DROP">>)
    IN  Call([g3 EXCEPT !.userMarker.position = c],
             "userMarker.setPosition", c)

setUserMarker(g, c) ==
    IF g.map.isNull
    THEN g
    ELSE LET g1 == IF g.userMarker.isNull
                   THEN Call([g EXCEPT !.userMarker.isNull = FALSE,
                                       !.constructed = @ + 1],
                             "new google.maps.Marker", <<>>)
                   ELSE g
             g2 == Call([g1 EXCEPT !.userMarker.onMap = TRUE],
                        "userMarker.setMap", <<"map">>)
             g3 == Call(g2, "userMarker.setAnimation", <<"DROP">>)
         IN  Call([g3 EXCEPT !.userMarker.position = c],
                  "userMarker.setPosition", c)

\* setUserLocationCirclePosition that re-centers without showing the circle
setUserLocationCirclePosition_KeepsHidden(g, c) ==
    IF ~g.userLocationCircle.isNull
    THEN Call([g EXCEPT !.userLocationCircle.center = c],
              "userLocationCircle.setCenter", c)
    ELSE g

setUserLocationCirclePosition(g, c) ==
    IF ~g.userLocationCircle.isNull
    THEN LET g1 == IF ~g.userLocationCircle.visible
                   THEN Call([g EXCEPT !.userLocationCircle.visible = TRUE],
                             "userLocationCircle.setVisible", <<TRUE>>)
                   ELSE g
         IN  Call([g1 EXCEPT !.userLocationCircle.center = c],
                  "userLocationCircle.setCenter", c)
    ELSE g

hideUserLocationCircle(g) ==
    IF ~g.userLocationCircle.isNull /\ g.userLocationCircle.visible
    THEN Call([g EXCEPT !.userLocationCircle.visible = FALSE],
              "userLocationCircle.setVisible", <<FALSE>>)
    ELSE g

----------------------------------------------------------------------------
(* Geolocator, as far as GoogleMap uses it *)

clearCurrentPosition(g) == [g EXCEPT !.currentPosition = NoCoord]

isCurrentPositionAvailable(g) == g.currentPosition # NoCoord

----------------------------------------------------------------------------
(* GoogleMap: the callbacks bound to the Geolocator *)

\* a statement after one that threw is not executed
Unless(g, h) == IF g.threw THEN g ELSE h

\* onGeolocationSuccess with the host callback after the updates
onGeolocationSuccess_CallbackLast(g, c) ==
    LET g1 == focusOnLocation(g, c)
        g2 == Unless(g1, setUserMarker(g1, c))
        g3 == Unless(g2, setUserLocationCirclePosition(g2, c))
    IN  Unless(g3, HostCallback(g3, "onGeolocationSuccessCallback", c))

onGeolocationSuccess(g, c) ==
    LET g1 == HostCallback(g, "onGeolocationSuccessCallback", c)
        g2 == focusOnLocation(g1, c)
        g3 == Unless(g2, setUserMarker(g2, c))
    IN  Unless(g3, setUserLocationCirclePosition(g3, c))

\* onGeolocationPermissionTimeout that always reports a cached position
onGeolocationPermissionTimeout_AlwaysCached(g) ==
    HostCallback(g, "onGeolocationPermissionTimeoutCallback", <<TRUE>>)

onGeolocationPermissionTimeout(g) ==
    HostCallback(g, "onGeolocationPermissionTimeoutCallback",
                 <<isCurrentPositionAvailable(g)>>)

\* onGeolocationRequest that keeps the Geolocator's current position
onGeolocationRequest_KeepsPosition(g) ==
    LET g2 == removeUserPosition(g)
        g3 == hideUserLocationCircle(g2)
    IN  HostCallback(g3, "onGeolocationRequestCallback", <<>>)

\* onGeolocationRequest with the host callback before the clearing
onGeolocationRequest_CallbackFirst(g) ==
    LET g1 == HostCallback(g, "onGeolocationRequestCallback", <<>>)
        g2 == clearCurrentPosition(g1)
        g3 == removeUserPosition(g2)
    IN  hideUserLocationCircle(g3)

onGeolocationRequest(g) ==
    LET g1 == clearCurrentPosition(g)
        g2 == removeUserPosition(g1)
        g3 == hideUserLocationCircle(g2)
    IN  HostCallback(g3, "onGeolocationRequestCallback", <<>>)

\* onGeolocationError that also clears the visuals
onGeolocationError_ClearsVisuals(g, errorMessage) ==
    HostCallback(hideUserLocationCircle(removeUserPosition(g)),
                 "onGeolocationErrorCallback", <<errorMessage>>)

onGeolocationError(g, errorMessage) ==
    HostCallback(g, "onGeolocationErrorCallback", <<errorMessage>>)

----------------------------------------------------------------------------
(* Geolocator session *)

\* startRequest that does not look at the session's state
startRequest_Unguarded(g, m) ==
    LET g1 == onGeolocationRequest(g)
    IN  [g1 EXCEPT !.session = "AwaitingPermission",
                   !.mode = m,
                   !.timerArmed = TRUE,
                   !.pending = IF m = "once" THEN @ + 1 ELSE @]

\* getCurrentPosition / listenForPositionUpdates: only an idle session
\* starts a request; the request-made callback runs before the request is
\* issued to the provider
startRequest(g, m) ==
    IF g.session = "Idle"
    THEN LET g1 == onGeolocationRequest(g)
         IN  [g1 EXCEPT !.session = "AwaitingPermission",
                        !.mode = m,
                        !.timerArmed = TRUE,
                        !.pending = IF m = "once" THEN @ + 1 ELSE @]
    ELSE g

stopListening(g) ==
    [g EXCEPT !.session = "Idle", !.mode = "none", !.timerArmed = FALSE]

\* onExternalSuccess that does not look at the session's state
onExternalSuccess_Unguarded(g, c) ==
    onGeolocationSuccess(
        [g EXCEPT !.timerArmed = FALSE, !.session = "Tracking",
                  !.currentPosition = c], c)

onExternalSuccess(g, c) ==
    IF g.session = "Idle"
    THEN g
    ELSE onGeolocationSuccess(
             [g EXCEPT !.timerArmed = FALSE, !.session = "Tracking",
                       !.currentPosition = c], c)

onExternalError(g, errorMessage) ==
    IF g.session = "Idle"
    THEN g
    ELSE onGeolocationError([g EXCEPT !.timerArmed = FALSE], errorMessage)

onTimerElapsed(g) ==
    IF g.session = "AwaitingPermission"
    THEN onGeolocationPermissionTimeout([g EXCEPT !.timerArmed = FALSE])
    ELSE [g EXCEPT !.timerArmed = FALSE]

\* the provider answers a one-shot request once; a watch answers repeatedly
Answered(g) ==
    IF g.mode = "watch" THEN g ELSE [g EXCEPT !.pending = @ - 1]

----------------------------------------------------------------------------
(* State machine *)

Commit(g, event, arg, quiet) ==
    /\ map' = g.map
    /\ userMarker' = g.userMarker
    /\ userLocationCircle' = g.userLocationCircle
    /\ markersConstructed' = g.constructed
    /\ session' = g.session
    /\ mode' = g.mode
    /\ timerArmed' = g.timerArmed
    /\ currentPosition' = g.currentPosition
    /\ pending' = g.pending
    /\ last' = [event |-> event, arg |-> arg, threw |-> g.threw]
    /\ trace' = g.trace
    /\ hostSaw' = g.saw
    /\ sinceRequest' = quiet
    /\ UNCHANGED hostCallbacks
    /\ UNCHANGED toggleVars
    /\ UNCHANGED builderVars
    /\ UNCHANGED markerVars

GoogleMapNew ==
    /\ map = NullMap
    /\ userMarker = NullMarker
    /\ userLocationCircle = NullCircle
    /\ markersConstructed = 0
    /\ hostCallbacks \in BOOLEAN
    /\ session = "Idle"
    /\ mode = "none"
    /\ timerArmed = FALSE
    /\ currentPosition = NoCoord
    /\ pending = 0
    /\ last = [event |-> "new GoogleMap", arg |-> NoCoord, threw |-> FALSE]
    /\ trace = <<>>
    /\ hostSaw = NoSnapshot
    /\ sinceRequest = FALSE

\* a ToggleButton constructed with serverState 0 that is never used
ToggleButtonUnused ==
    /\ serverState = 0
    /\ selectedState = 0
    /\ isRequestInProgress = FALSE
    /\ httpMethod = "POST"
    /\ toggleCallbacks = FALSE
    /\ requests = <<>>
    /\ handled = [phase |-> "none", data |-> 0 - 1, serverAtSend |-> 0,
                  overlapped |-> FALSE]
    /\ toggleLast = [event |-> "new ToggleButton", data |-> 0 - 1,
                     overlapped |-> FALSE]

HttpQueryStringBuilderNew ==
    /\ page = 0
    /\ queryParameters = <<>>
    /\ queryString = <<>>
    /\ builderLast = "new HttpQueryStringBuilder"

Markers == 1..MaxMarkers

\* marker == null
NullPoint == 0 - 1

\* no point-of-interest marker yet, onMarkerClickCallback null (144)
PointMarkersUnused ==
    /\ pointMarkers = [m \in Markers |-> [onMap |-> FALSE, listeners |-> 0]]
    /\ onMarkerClickCallback = FALSE
    /\ markerLast = [event |-> "new GoogleMap", marker |-> NullPoint,
                     calls |-> <<>>]

Init ==
    /\ GoogleMapNew
    /\ ToggleButtonUnused
    /\ HttpQueryStringBuilderNew
    /\ PointMarkersUnused

initializeMap ==
    /\ map.isNull
    /\ Commit([Fields EXCEPT !.map = [isNull |-> FALSE,
                                      center |-> mapOptions.center,
                                      zoom |-> mapOptions.zoom,
                                      boundsKnown |-> FALSE,
                                      bounds |-> {}]],
              "initializeMap", NoCoord, FALSE)

\* options.visible defaults to true; options.center is optional
initializeUserLocationCircle ==
    /\ userLocationCircle.isNull
    /\ \E v \in BOOLEAN, c \in Coords \cup {NoCoord} :
          Commit([Fields EXCEPT !.userLocationCircle =
                      [isNull |-> FALSE, visible |-> v, center |-> c]],
                 "initializeUserLocationCircle", NoCoord, FALSE)

requestPosition ==
    /\ session = "Idle" => pending < MaxPending
    /\ Commit(startRequest(Fields, "once"),
              IF session = "Idle" THEN "request" ELSE "requestIgnored",
              NoCoord, session = "Idle" \/ sinceRequest)

startPositionUpdateListener ==
    /\ Commit(startRequest(Fields, "watch"),
              IF session = "Idle" THEN "request" ELSE "requestIgnored",
              NoCoord, session = "Idle" \/ sinceRequest)

stopPositionUpdateListener ==
    /\ Commit(stopListening(Fields), "stop", NoCoord, sinceRequest)

\* the provider calls back with a position
ProviderSuccess ==
    /\ pending > 0 \/ (mode = "watch" /\ session # "Idle")
    /\ \E c \in Coords :
          Commit(onExternalSuccess(Answered(Fields), c),
                 IF session = "Idle" THEN "lateSuccess" ELSE "success", c,
                 session = "Idle" /\ sinceRequest)

\* the provider calls back with an error
ProviderError ==
    /\ pending > 0 \/ (mode = "watch" /\ session # "Idle")
    /\ \E m \in ErrorMessages :
          Commit(onExternalError(Answered(Fields), m),
                 IF session = "Idle" THEN "lateError" ELSE "error", <<m>>,
                 sinceRequest)

\* geolocatorWaitTimeout ms have passed without an answer
PermissionTimeout ==
    /\ timerArmed
    /\ Commit(onTimerElapsed(Fields), "permissionTimeout", NoCoord,
              sinceRequest)

\* the rendering surface has laid the map out: getBounds() is defined and
\* contains the centre
SurfaceLaidOut ==
    /\ ~map.isNull /\ ~map.boundsKnown
    /\ \E b \in SUBSET Coords :
          /\ map.center \in b
          /\ Commit([Fields EXCEPT !.map.boundsKnown = TRUE, !.map.bounds = b],
                    "surface", NoCoord, sinceRequest)

\* the user pans the map by hand
UserPansMap ==
    /\ ~map.isNull /\ map.boundsKnown
    /\ \E c \in Coords, b \in SUBSET Coords :
          /\ c \in b
          /\ <<c, b>> # <<map.center, map.bounds>>
          /\ Commit([Fields EXCEPT !.map.center = c, !.map.bounds = b],
                    "user", NoCoord, sinceRequest)

\* the user zooms the map by hand
UserZoomsMap ==
    /\ ~map.isNull /\ map.boundsKnown
    /\ \E z \in ZoomLevels \ {map.zoom} :
          Commit([Fields EXCEPT !.map.zoom = z], "user", NoCoord,
                 sinceRequest)

\* the widget driven by the Geolocator's callbacks
Next ==
    \/ initializeMap
    \/ initializeUserLocationCircle
    \/ requestPosition
    \/ startPositionUpdateListener
    \/ stopPositionUpdateListener
    \/ ProviderSuccess
    \/ ProviderError
    \/ PermissionTimeout
    \/ SurfaceLaidOut
    \/ UserPansMap
    \/ UserZoomsMap

Spec == Init /\ [][Next]_vars

----------------------------------------------------------------------------
(* The host page calling the positioning operations itself *)

HostSetUserMarker ==
    /\ \E c \in Coords :
          Commit(setUserMarker(Fields, c), "setUserMarker", c, FALSE)

HostSetUserLocationCirclePosition ==
    /\ \E c \in Coords :
          Commit(setUserLocationCirclePosition(Fields, c),
                 "setUserLocationCirclePosition", c, FALSE)

HostFocusOnLocation ==
    /\ \E c \in Coords :
          Commit(focusOnLocation(Fields, c), "focusOnLocation", c, FALSE)

HostCenterMap ==
    /\ \E c \in Coords :
          Commit(centerMap(Fields, c), "centerMap", c, FALSE)

HostZoomMap ==
    /\ \E z \in ZoomLevels :
          Commit(zoomMap(Fields, z), "zoomMap", NoCoord, FALSE)

HostRemoveUserPosition ==
    /\ Commit(removeUserPosition(Fields), "removeUserPosition", NoCoord,
              FALSE)

HostHideUserLocationCircle ==
    /\ Commit(hideUserLocationCircle(Fields), "hideUserLocationCircle",
              NoCoord, FALSE)

NextDirect ==
    \/ initializeMap
    \/ initializeUserLocationCircle
    \/ requestPosition
    \/ ProviderSuccess
    \/ SurfaceLaidOut
    \/ UserPansMap
    \/ UserZoomsMap
    \/ HostSetUserMarker
    \/ HostSetUserLocationCirclePosition
    \/ HostFocusOnLocation
    \/ HostCenterMap
    \/ HostZoomMap
    \/ HostRemoveUserPosition
    \/ HostHideUserLocationCircle

SpecDirect == Init /\ [][NextDirect]_vars

----------------------------------------------------------------------------
(* ToggleButton (src/js/widgets/ToggleButton.js)                           *)
(*                                                                         *)
(* $.ajax calls beforeSend before it returns; when the answer arrives it   *)
(* calls success or error and then complete. A host callback may itself    *)
(* call selectState, so selectState can run between success/error and      *)
(* complete when the host has set callbacks.                               *)

NoData == 0 - 1

NoRequest ==
    [phase |-> "none", data |-> NoData, serverAtSend |-> 0,
     overlapped |-> FALSE]

\* values a host passes to selectState, as JavaScript literals
RawStates == {"true", "false", "1", "0", "'1'", "'0'", "2", "undefined"}

\* state == true || state == 1 || state == "1" ? 1 : 0
Normalize(state) == IF state \in {"true", "1", "'1'"} THEN 1 ELSE 0

HttpMethods == {"POST", "post", "GET"}

toUpperCase(m) == IF m = "post" THEN "POST" ELSE m

ToggleFields ==
    [serverState |-> serverState, selectedState |-> selectedState,
     isRequestInProgress |-> isRequestInProgress, requests |-> requests,
     handled |-> handled, sent |-> FALSE]

\* a selectState call that sends nothing overlaps the outstanding request
Overlap(t) ==
    [t EXCEPT !.requests = [i \in DOMAIN @ |-> [@[i] EXCEPT !.overlapped = TRUE]],
              !.handled.overlapped = (@ \/ t.handled.phase # "none")]

ajaxBeforeSend(t) == [t EXCEPT !.isRequestInProgress = TRUE]

\* sendRequest that does not look at isRequestInProgress
sendRequest_Unguarded(t) ==
    LET data == IF toUpperCase(httpMethod) = "POST"
                THEN t.selectedState ELSE NoData
        t1 == ajaxBeforeSend(t)
    IN  [t1 EXCEPT !.requests =
                       Append(@, [data |-> data,
                                  serverAtSend |-> t.serverState,
                                  overlapped |-> FALSE]),
                   !.sent = TRUE]

sendRequest(t) ==
    IF t.isRequestInProgress
    THEN Overlap(t)
    ELSE LET data == IF toUpperCase(httpMethod) = "POST"
                     THEN t.selectedState ELSE NoData
             t1 == ajaxBeforeSend(t)
         IN  [t1 EXCEPT !.requests =
                            Append(@, [data |-> data,
                                       serverAtSend |-> t.serverState,
                                       overlapped |-> FALSE]),
                        !.sent = TRUE]

selectState(t, state) ==
    sendRequest([t EXCEPT !.selectedState = Normalize(state)])

Answer(t, i, phase) ==
    [t EXCEPT !.requests = SubSeq(@, 1, i - 1) \o SubSeq(@, i + 1, Len(@)),
              !.handled = [phase |-> phase, data |-> t.requests[i].data,
                           serverAtSend |-> t.requests[i].serverAtSend,
                           overlapped |-> t.requests[i].overlapped]]

ajaxSuccess(t) == [t EXCEPT !.serverState = t.selectedState]

\* the error handler without the revert
ajaxError_KeepsSelection(t) == t

ajaxError(t) == [t EXCEPT !.selectedState = t.serverState]

ajaxComplete(t) ==
    [t EXCEPT !.isRequestInProgress = FALSE, !.handled = NoRequest]

ToggleCommit(t, event, data, overlapped) ==
    /\ serverState' = t.serverState
    /\ selectedState' = t.selectedState
    /\ isRequestInProgress' = t.isRequestInProgress
    /\ requests' = t.requests
    /\ handled' = t.handled
    /\ toggleLast' = [event |-> event, data |-> data,
                      overlapped |-> overlapped]
    /\ UNCHANGED <<httpMethod, toggleCallbacks>>
    /\ UNCHANGED mapVars
    /\ UNCHANGED builderVars
    /\ UNCHANGED markerVars

\* a GoogleMap that is never used
GoogleMapUnused == GoogleMapNew /\ hostCallbacks = FALSE

ToggleButtonNew ==
    /\ serverState \in {0, 1}
    /\ selectedState = serverState
    /\ isRequestInProgress = FALSE
    /\ httpMethod \in HttpMethods
    /\ toggleCallbacks \in BOOLEAN
    /\ requests = <<>>
    /\ handled = NoRequest
    /\ toggleLast = [event |-> "new ToggleButton", data |-> NoData,
                     overlapped |-> FALSE]

ToggleInit ==
    /\ GoogleMapUnused
    /\ ToggleButtonNew
    /\ HttpQueryStringBuilderNew
    /\ PointMarkersUnused

\* the host calls selectState: from an event handler of the page, or from
\* the success or error callback of the request being answered
SelectState ==
    /\ handled.phase # "none" => toggleCallbacks
    /\ Len(requests) < MaxInFlight
    /\ \E state \in RawStates :
          LET t == selectState(ToggleFields, state)
          IN  ToggleCommit(t, IF t.sent THEN "selectSent" ELSE "selectDropped",
                           IF t.sent THEN t.requests[Len(t.requests)].data
                                     ELSE NoData,
                           FALSE)

\* the server answers a request with success
RequestSucceeds ==
    /\ handled.phase = "none"
    /\ \E i \in DOMAIN requests :
          LET t == ajaxSuccess(Answer(ToggleFields, i, "success"))
          IN  ToggleCommit(t, "success", t.handled.data, t.handled.overlapped)

\* the server answers a request with an error, or the request fails
RequestFails ==
    /\ handled.phase = "none"
    /\ \E i \in DOMAIN requests :
          LET t == ajaxError(Answer(ToggleFields, i, "error"))
          IN  ToggleCommit(t, "error", t.handled.data, t.handled.overlapped)

\* complete runs after success or error
RequestCompletes ==
    /\ handled.phase # "none"
    /\ ToggleCommit(ajaxComplete(ToggleFields), "complete", handled.data,
                    handled.overlapped)

ToggleNext ==
    \/ SelectState
    \/ RequestSucceeds
    \/ RequestFails
    \/ RequestCompletes

ToggleSpec == ToggleInit /\ [][ToggleNext]_vars

----------------------------------------------------------------------------
(* HttpQueryStringBuilder (src/js/http/HttpQueryStringBuilder.js)          *)
(*                                                                         *)
(* A string is the sequence of its characters. queryParameters.objects is  *)
(* the sequence of its [key, value] entries in the order for-in visits     *)
(* them.                                                                   *)

ParameterNames == {<<"q">>, <<"a", "&", "b">>}

ParameterValues == {<<"x", "1">>, <<"?", "=", " ">>, <<>>}

\* pages the host passes to setPage
PageArguments == {0 - MaxPage, 0 - 1, 0, 1, MaxPage, 10 * MaxPage + 2}

DigitChars == <<"0", "1", "2", "3", "4", "5", "6", "7", "8", "9">>

RECURSIVE Digits(_)
Digits(n) ==
    IF n < 10
    THEN <<DigitChars[n + 1]>>
    ELSE Digits(n \div 10) \o <<DigitChars[(n % 10) + 1]>>

\* "?page=" + this.page: the number as JavaScript writes it
NumberToString(n) == IF n < 0 THEN <<"-">> \o Digits(0 - n) ELSE Digits(n)

\* encodeURIComponent keeps letters, digits and - _ . ! ~ * ' ( )
EncodeChar(ch) ==
    CASE ch = "&" -> <<"%", "2", "6">>
      [] ch = "=" -> <<"%", "3", "D">>
      [] ch = "?" -> <<"%", "3", "F">>
      [] ch = " " -> <<"%", "2", "0">>
      [] OTHER -> <<ch>>

RECURSIVE encodeURIComponent(_)
encodeURIComponent(str) ==
    IF str = <<>>
    THEN <<>>
    ELSE EncodeChar(Head(str)) \o encodeURIComponent(Tail(str))

\* Collection: objects[key] = value; a key already there keeps its place
hasKey(objects, key) == \E i \in DOMAIN objects : objects[i].key = key

collectionAdd(objects, key, value) ==
    IF hasKey(objects, key)
    THEN [i \in DOMAIN objects |->
              IF objects[i].key = key
              THEN [key |-> key, value |-> value]
              ELSE objects[i]]
    ELSE Append(objects, [key |-> key, value |-> value])

collectionRemove(objects, key) ==
    SelectSeq(objects, LAMBDA e : e.key # key)

\* the loop of buildQueryString from its i-th entry on
RECURSIVE AppendParameters(_, _, _, _)
AppendParameters(str, objects, i, p) ==
    IF i >= Len(objects)
    THEN str
    ELSE AppendParameters(
             str \o (IF i = 0 /\ p < 1 THEN <<"?">> ELSE <<"&">>)
                 \o encodeURIComponent(objects[i + 1].key)
                 \o <<"=">>
                 \o encodeURIComponent(objects[i + 1].value),
             objects, i + 1, p)

\* buildQueryString that joins with "&" from the first parameter on
buildQueryString_AmpersandFirst(p, objects) ==
    AppendParameters(
        IF p > 0
        THEN <<"?", "p", "a", "g", "e", "=">> \o NumberToString(p)
        ELSE <<>>,
        objects, 0, 1)

buildQueryString(p, objects) ==
    AppendParameters(
        IF p > 0
        THEN <<"?", "p", "a", "g", "e", "=">> \o NumberToString(p)
        ELSE <<>>,
        objects, 0, p)

incrementPage(p) == p + 1

\* decrementPage that stops at 0 instead of 1
decrementPage_ToZero(p) == IF p > 0 THEN p - 1 ELSE p

decrementPage(p) == IF p > 1 THEN p - 1 ELSE p

resetPageNumber(p) == 1

BuilderCommit(p, objects, str, call) ==
    /\ page' = p
    /\ queryParameters' = objects
    /\ queryString' = str
    /\ builderLast' = call
    /\ UNCHANGED mapVars
    /\ UNCHANGED toggleVars
    /\ UNCHANGED markerVars

BuilderInit ==
    /\ GoogleMapUnused
    /\ ToggleButtonUnused
    /\ HttpQueryStringBuilderNew
    /\ PointMarkersUnused

SetPage ==
    /\ \E p \in PageArguments :
          BuilderCommit(p, queryParameters, <<>>, "setPage")

AddQueryParameter ==
    /\ \E key \in ParameterNames, value \in ParameterValues :
          BuilderCommit(page, collectionAdd(queryParameters, key, value),
                        <<>>, "addQueryParameter")

RemoveQueryParameter ==
    /\ \E key \in ParameterNames :
          BuilderCommit(page, collectionRemove(queryParameters, key), <<>>,
                        "removeQueryParameter")

BuildQueryString ==
    /\ BuilderCommit(page, queryParameters,
                     buildQueryString(page, queryParameters),
                     "buildQueryString")

IncrementPage ==
    /\ page < MaxPage
    /\ BuilderCommit(incrementPage(page), queryParameters, <<>>,
                     "incrementPage")

DecrementPage ==
    /\ BuilderCommit(decrementPage(page), queryParameters, <<>>,
                     "decrementPage")

ResetPageNumber ==
    /\ BuilderCommit(resetPageNumber(page), queryParameters, <<>>,
                     "resetPageNumber")

ResetQueryParams ==
    /\ BuilderCommit(resetPageNumber(page), <<>>, <<>>, "resetQueryParams")

\* every operation of the builder that does not send a request
BuilderNext ==
    \/ SetPage
    \/ AddQueryParameter
    \/ RemoveQueryParameter
    \/ BuildQueryString
    \/ IncrementPage
    \/ DecrementPage
    \/ ResetPageNumber
    \/ ResetQueryParams

BuilderSpec == BuilderInit /\ [][BuilderNext]_vars

\* a builder whose page is moved by the paging operations only
PagingNext ==
    \/ AddQueryParameter
    \/ RemoveQueryParameter
    \/ BuildQueryString
    \/ IncrementPage
    \/ DecrementPage
    \/ ResetPageNumber
    \/ ResetQueryParams

PagingSpec == BuilderInit /\ [][PagingNext]_vars

----------------------------------------------------------------------------
(* GoogleMap: point-of-interest markers                                    *)
(*                                                                         *)
(* The host page constructs the markers; a listener added with             *)
(* google.maps.event.addListener stays on its marker, and a click on a     *)
(* marker runs every listener added to it, in the order they were added.   *)

MarkerFields ==
    [pointMarkers |-> pointMarkers,
     onMarkerClickCallback |-> onMarkerClickCallback,
     calls |-> <<>>]

addMarkerClickListener(p, marker) ==
    IF marker = NullPoint
    THEN p
    ELSE IF p.onMarkerClickCallback
         THEN [p EXCEPT !.pointMarkers[marker].listeners = @ + 1]
         ELSE p

removeMarker(p, marker) ==
    IF marker = NullPoint
    THEN p
    ELSE [p EXCEPT !.pointMarkers[marker].onMap = FALSE]

\* the 'click' event of a marker: each listener calls onMarkerClickCallback
\* with the marker it was added for
click(p, marker) ==
    [p EXCEPT !.calls = [i \in 1..p.pointMarkers[marker].listeners |->
                             [op |-> "onMarkerClickCallback",
                              arg |-> marker]]]

MarkerCommit(p, event, marker) ==
    /\ pointMarkers' = p.pointMarkers
    /\ markerLast' = [event |-> event, marker |-> marker, calls |-> p.calls]
    /\ UNCHANGED onMarkerClickCallback
    /\ UNCHANGED mapVars
    /\ UNCHANGED toggleVars
    /\ UNCHANGED builderVars

MarkerInit ==
    /\ GoogleMapUnused
    /\ ToggleButtonUnused
    /\ HttpQueryStringBuilderNew
    /\ pointMarkers = [m \in Markers |-> [onMap |-> FALSE, listeners |-> 0]]
    /\ onMarkerClickCallback \in BOOLEAN
    /\ markerLast = [event |-> "new GoogleMap", marker |-> NullPoint,
                     calls |-> <<>>]

\* new google.maps.Marker({map: ...}) or marker.setMap(map) by the host page
HostPlacesMarker ==
    /\ \E m \in Markers :
          /\ ~pointMarkers[m].onMap
          /\ MarkerCommit([MarkerFields EXCEPT !.pointMarkers[m].onMap = TRUE],
                          "place", m)

AddMarkerClickListener ==
    /\ \E m \in Markers \cup {NullPoint} :
          /\ m # NullPoint => pointMarkers[m].listeners < MaxListeners
          /\ MarkerCommit(addMarkerClickListener(MarkerFields, m),
                          "addMarkerClickListener", m)

RemoveMarker ==
    /\ \E m \in Markers \cup {NullPoint} :
          MarkerCommit(removeMarker(MarkerFields, m), "removeMarker", m)

UserClicksMarker ==
    /\ \E m \in Markers :
          /\ pointMarkers[m].onMap
          /\ MarkerCommit(click(MarkerFields, m), "click", m)

MarkerNext ==
    \/ HostPlacesMarker
    \/ AddMarkerClickListener
    \/ RemoveMarker
    \/ UserClicksMarker

MarkerSpec == MarkerInit /\ [][MarkerNext]_vars

----------------------------------------------------------------------------
(* Claims *)

HasOp(t, op) == \E i \in 1..Len(t) : t[i].op = op

CountOp(t, op) == Cardinality({i \in 1..Len(t) : t[i].op = op})

CameraOps == {"map.setZoom", "map.panTo"}

MarkerOps == {"new google.maps.Marker", "userMarker.setMap",
              "userMarker.setAnimation", "userMarker.setPosition"}

CircleOps == {"userLocationCircle.setVisible", "userLocationCircle.setCenter"}

\* the place of a call in the order callback, camera, marker, circle
Rank(op) ==
    IF op \in CameraOps THEN 1
    ELSE IF op \in MarkerOps THEN 2
    ELSE IF op \in CircleOps THEN 3
    ELSE 0

NoCameraCall(t) == \A i \in 1..Len(t) : t[i].op \notin CameraOps

\* the user marker is on the map at c and the circle is shown around c
MarkerAt(m, c) == ~m.isNull /\ m.onMap /\ m.position = c

CircleAt(k, c) == ~k.isNull /\ k.visible /\ k.center = c

\* C1: a success callback that the provider delivers after
\* stopPositionUpdateListener leaves the user marker and the accuracy
\* circle exactly as they were right after the stop.
C1_LateSuccessIgnored ==
    [][last'.event = "lateSuccess"
         => /\ userMarker' = userMarker
            /\ userLocationCircle' = userLocationCircle
            /\ trace' = <<>>]_vars

C1_Witness ==
    /\ last.event = "lateSuccess"
    /\ ~map.isNull /\ map.boundsKnown
    /\ ~userLocationCircle.isNull
    /\ ~MarkerAt(userMarker, last.arg)

\* C2 as claimed: when the host's success callback runs, the user marker is
\* already placed and the circle already centred on the delivered coordinate.
C2_HostSeesPlacedMarker ==
    (/\ last.event = "success" /\ hostSaw.taken /\ ~last.threw
     /\ ~map.isNull /\ ~userLocationCircle.isNull)
        => /\ MarkerAt(hostSaw.userMarker, last.arg)
           /\ CircleAt(hostSaw.userLocationCircle, last.arg)

\* C2 as amended: on every success event the host's success callback is
\* the first call made, with the delivered coordinate, so it sees the marker
\* and the circle as they were before the event; the pan/zoom, the marker
\* placement and the circle update follow it in that order.
C2_HostCallbackFirst ==
    [][(last'.event = "success" /\ hostCallbacks)
         => /\ Len(trace') >= 1
            /\ trace'[1].op = "onGeolocationSuccessCallback"
            /\ trace'[1].arg = last'.arg
            /\ hostSaw'.taken
            /\ hostSaw'.userMarker = userMarker
            /\ hostSaw'.userLocationCircle = userLocationCircle
            /\ \A i, j \in 1..Len(trace') :
                  i < j => Rank(trace'[i].op) <= Rank(trace'[j].op)]_vars

C2_Witness ==
    /\ last.event = "success" /\ hostSaw.taken /\ ~last.threw
    /\ HasOp(trace, "map.panTo")
    /\ MarkerAt(userMarker, last.arg)
    /\ CircleAt(userLocationCircle, last.arg)
    /\ ~MarkerAt(hostSaw.userMarker, last.arg)

\* C3 as claimed: a success event on an initialized map whose coordinate is
\* outside the current bounds, or whose zoom is below minFocusedZoomLevel,
\* issues exactly one zoom to focusedZoomLevel and one pan to the coordinate.
C3_FocusesWhenOutOfView ==
    [][(/\ last'.event = "success"
        /\ ~map.isNull
        /\ \/ (map.boundsKnown /\ last'.arg \notin map.bounds)
           \/ map.zoom < minFocusedZoomLevel)
         => /\ ~last'.threw
            /\ CountOp(trace', "map.setZoom") = 1
            /\ CountOp(trace', "map.panTo") = 1
            /\ map'.zoom = focusedZoomLevel
            /\ map'.center = last'.arg]_vars

\* C4: a success event whose coordinate is inside the current bounds while
\* the zoom is at least minFocusedZoomLevel issues no pan and no zoom: the
\* camera is left as it was.
C4_NoCameraMoveWhenInView ==
    [][(/\ last'.event = "success"
        /\ ~map.isNull /\ map.boundsKnown
        /\ last'.arg \in map.bounds
        /\ map.zoom >= minFocusedZoomLevel)
         => /\ map' = map
            /\ NoCameraCall(trace')
            /\ ~last'.threw]_vars

C4_Witness ==
    /\ last.event = "success" /\ ~last.threw
    /\ ~map.isNull /\ map.boundsKnown
    /\ last.arg \in map.bounds
    /\ map.zoom = minFocusedZoomLevel
    /\ NoCameraCall(trace)
    /\ MarkerAt(userMarker, last.arg)

\* C5 as claimed: a success event on an initialized map that cannot report
\* its bounds yet does not fail: it zooms to focusedZoomLevel, pans to the
\* coordinate, places the marker there and centres the circle there.
C5_FocusesWithoutBounds ==
    (last.event = "success" /\ ~map.isNull /\ ~map.boundsKnown)
        => /\ ~last.threw
           /\ map.zoom = focusedZoomLevel
           /\ map.center = last.arg
           /\ MarkerAt(userMarker, last.arg)
           /\ (~userLocationCircle.isNull
                 => CircleAt(userLocationCircle, last.arg))

\* C6: when a request is made the user marker is detached and the circle
\* hidden before the host's request-started callback runs, and while only
\* errors and timeouts arrive after it they stay detached and hidden.
C6_StaleVisualsCleared ==
    /\ (last.event = "request" /\ hostSaw.taken)
          => /\ ~hostSaw.userMarker.onMap
             /\ ~hostSaw.userLocationCircle.visible
             /\ trace[Len(trace)].op = "onGeolocationRequestCallback"
    /\ sinceRequest
          => /\ ~userMarker.onMap
             /\ ~userLocationCircle.visible

C6_Witness ==
    /\ sinceRequest
    /\ last.event \in {"error", "permissionTimeout"}
    /\ hostSaw.taken
    /\ ~userMarker.isNull
    /\ ~userLocationCircle.isNull
    /\ userLocationCircle.center = userMarker.position

\* C7: an error event and a permission-timeout event only forward the
\* notification to the host (the error one with the provider's message);
\* the marker, the circle and the camera are unchanged.
C7_FailuresOnlyForwarded ==
    [][last'.event \in {"error", "permissionTimeout"}
         => /\ view' = view
            /\ markersConstructed' = markersConstructed
            /\ ~last'.threw
            /\ Len(trace') = (IF hostCallbacks THEN 1 ELSE 0)
            /\ hostCallbacks
                 => /\ last'.event = "error"
                       => /\ trace'[1].op = "onGeolocationErrorCallback"
                          /\ trace'[1].arg = last'.arg
                    /\ last'.event = "permissionTimeout"
                       => trace'[1].op =
                              "onGeolocationPermissionTimeoutCallback"]_vars

C7_Witness ==
    /\ last.event = "error"
    /\ hostSaw.taken
    /\ ~userMarker.isNull /\ userMarker.onMap
    /\ ~userLocationCircle.isNull /\ userLocationCircle.visible

PositioningOps ==
    {"success", "setUserMarker", "setUserLocationCirclePosition",
     "focusOnLocation", "centerMap", "zoomMap"}

\* C8 as claimed: before initializeMap every positioning operation is a
\* silent no-op: no failure, and marker, circle and camera are unchanged.
C8_NoOpBeforeInitializeMap ==
    [][(map.isNull /\ last'.event \in PositioningOps)
         => /\ ~last'.threw
            /\ view' = view]_vars

\* C8 as amended: before initializeMap a positioning operation raises no
\* failure and changes neither the marker nor the camera; the circle is
\* changed only by a success event or setUserLocationCirclePosition, and
\* only when it has been initialized: it is then shown and centred on the
\* coordinate.
C8_MapGuardedBeforeInitializeMap ==
    [][(map.isNull /\ last'.event \in PositioningOps)
         => /\ ~last'.threw
            /\ map' = map
            /\ userMarker' = userMarker
            /\ markersConstructed' = markersConstructed
            /\ IF /\ last'.event \in {"success",
                                      "setUserLocationCirclePosition"}
                  /\ ~userLocationCircle.isNull
               THEN CircleAt(userLocationCircle', last'.arg)
               ELSE userLocationCircle' = userLocationCircle]_vars

C8_Witness ==
    /\ map.isNull
    /\ last.event = "success"
    /\ userMarker.isNull
    /\ CircleAt(userLocationCircle, last.arg)

\* C9 as claimed: after a success event on a widget whose map and circle
\* are initialized, the marker is on the map at the delivered coordinate
\* and the circle is visible and centred there.
C9_LastSuccessAuthoritative ==
    (last.event = "success" /\ ~map.isNull /\ ~userLocationCircle.isNull)
        => /\ MarkerAt(userMarker, last.arg)
           /\ CircleAt(userLocationCircle, last.arg)

\* C10: at most one user marker is ever constructed; once constructed it
\* is kept, detached or attached, and placements reuse it.
C10_OneUserMarker ==
    /\ markersConstructed <= 1
    /\ markersConstructed = 1 <=> ~userMarker.isNull
    /\ (last.event = "success" /\ hostSaw.taken
          /\ ~hostSaw.userMarker.isNull)
          => ~HasOp(trace, "new google.maps.Marker")

C10_Witness ==
    /\ last.event = "success" /\ hostSaw.taken
    /\ ~hostSaw.userMarker.isNull /\ ~hostSaw.userMarker.onMap
    /\ MarkerAt(userMarker, last.arg)
    /\ markersConstructed = 1

Failures == {"error", "permissionTimeout"}

\* C11 as claimed: the Geolocator's last accepted coordinate is changed by
\* a success event only; a request made, an error and a permission
\* timeout neither change nor clear it.
C11_OnlySuccessChangesPosition ==
    [][last'.event \in {"request", "error", "permissionTimeout"}
         => currentPosition' = currentPosition]_vars

\* C11 as amended: the last accepted coordinate is set to a coordinate by
\* a success event only; an error and a permission timeout leave it as it
\* is; a request made clears it.
C11_SuccessSetsRequestClears ==
    [][/\ last'.event \in Failures => currentPosition' = currentPosition
       /\ last'.event = "request" => currentPosition' = NoCoord
       /\ last'.event = "success" => currentPosition' = last'.arg
       /\ currentPosition' # currentPosition
            => last'.event \in {"success", "request"}]_vars

C11_Witness ==
    /\ last.event = "error"
    /\ currentPosition \in Coords
    /\ session = "Tracking"

\* C12: a permission timeout leaves the last accepted coordinate and the
\* session's state AwaitingPermission as they are, tells the host whether a
\* cached coordinate exists, and fires at most once per request made: the
\* timer is armed by a request made only and is disarmed when it fires.
C12_TimeoutAdvisory ==
    [][/\ last'.event = "permissionTimeout"
            => /\ session = "AwaitingPermission"
               /\ session' = "AwaitingPermission"
               /\ currentPosition' = currentPosition
               /\ timerArmed /\ ~timerArmed'
               /\ hostCallbacks
                    => /\ Len(trace') = 1
                       /\ trace'[1].op =
                              "onGeolocationPermissionTimeoutCallback"
                       /\ trace'[1].arg = <<currentPosition # NoCoord>>
       /\ last'.event = "request" => timerArmed'
       /\ (timerArmed' /\ ~timerArmed) => last'.event = "request"]_vars

C12_Witness ==
    /\ last.event = "permissionTimeout"
    /\ hostSaw.taken
    /\ session = "AwaitingPermission"
    /\ ~timerArmed
    /\ pending > 0

\* C13: a request made while one is outstanding is a no-op: no second
\* timer is armed on top of the armed one and no second request is issued
\* to the provider.
C13_SecondRequestIgnored ==
    [][/\ last'.event = "requestIgnored"
            => /\ session # "Idle"
               /\ UNCHANGED <<session, mode, timerArmed, pending,
                              currentPosition, view>>
               /\ trace' = <<>>
       /\ last'.event = "request" => (~timerArmed /\ session = "Idle")
       /\ timerArmed' => session' = "AwaitingPermission"]_vars

C13_Witness ==
    /\ last.event = "requestIgnored"
    /\ session = "AwaitingPermission"
    /\ mode = "once"
    /\ timerArmed
    /\ pending = 1

\* C14 as claimed: after an error or a permission timeout has been
\* reported, the next requestPosition or startPositionUpdateListener goes
\* through the request path: the stale visuals are cleared and the request
\* is made.
C14_RetryAfterFailure ==
    [][(last.event \in Failures
          /\ last'.event \in {"request", "requestIgnored"})
         => /\ last'.event = "request"
            /\ session' = "AwaitingPermission"
            /\ timerArmed'
            /\ ~userMarker'.onMap
            /\ ~userLocationCircle'.visible]_vars

\* requests of the ToggleButton sent and not yet completed
Outstanding == Len(requests) + (IF handled.phase # "none" THEN 1 ELSE 0)

\* C15: a ToggleButton has at most one HTTP request outstanding, and
\* isRequestInProgress tells whether there is one; selectState sends no
\* request while one is outstanding and sends exactly one otherwise.
C15_OneRequestOutstanding ==
    /\ [](Outstanding <= 1 /\ (isRequestInProgress <=> Outstanding = 1))
    /\ [][toggleLast'.event \in {"selectSent", "selectDropped"}
            => IF isRequestInProgress
               THEN /\ toggleLast'.event = "selectDropped"
                    /\ Len(requests') = Len(requests)
                    /\ Outstanding' = Outstanding
               ELSE /\ toggleLast'.event = "selectSent"
                    /\ Len(requests') = Len(requests) + 1
                    /\ Outstanding' = 1]_vars

C15_Witness ==
    /\ toggleLast.event = "selectDropped"
    /\ isRequestInProgress
    /\ Len(requests) = 1
    /\ selectedState # requests[1].data

C19_ServerStateIsTransmitted ==
    (toggleLast.event = "success" /\ toggleLast.data # NoData)
        => serverState = toggleLast.data

\* C20 as claimed: whenever no request is in progress, selectedState
\* equals serverState.
C20_IdleStatesAgree ==
    ~isRequestInProgress => selectedState = serverState

RECURSIVE SplitAt(_, _, _)
SplitAt(str, sep, cur) ==
    IF str = <<>>
    THEN <<cur>>
    ELSE IF Head(str) = sep
         THEN <<cur>> \o SplitAt(Tail(str), sep, <<>>)
         ELSE SplitAt(Tail(str), sep, Append(cur, Head(str)))

CountChar(str, ch) == Cardinality({i \in DOMAIN str : str[i] = ch})

DigitValue(ch) == (CHOOSE d \in DOMAIN DigitChars : DigitChars[d] = ch) - 1

IsDigits(str) ==
    /\ str # <<>>
    /\ \A i \in DOMAIN str : \E d \in DOMAIN DigitChars : DigitChars[d] = str[i]

RECURSIVE ParseInt(_, _)
ParseInt(str, acc) ==
    IF str = <<>>
    THEN acc
    ELSE ParseInt(Tail(str), 10 * acc + DigitValue(Head(str)))

\* the character a %XX escape stands for
Unescape(hi, lo) ==
    CASE <<hi, lo>> = <<"2", "6">> -> "&"
      [] <<hi, lo>> = <<"3", "D">> -> "="
      [] <<hi, lo>> = <<"3", "F">> -> "?"
      [] <<hi, lo>> = <<"2", "0">> -> " "
      [] OTHER -> "%"

RECURSIVE decodeURIComponent(_)
decodeURIComponent(str) ==
    IF str = <<>>
    THEN <<>>
    ELSE IF Head(str) = "%" /\ Len(str) >= 3
         THEN <<Unescape(str[2], str[3])>>
                  \o decodeURIComponent(SubSeq(str, 4, Len(str)))
         ELSE <<Head(str)>> \o decodeURIComponent(Tail(str))

\* segment reads page=N for the number n
IsPageSegment(segment, n) ==
    /\ Len(segment) > 5
    /\ SubSeq(segment, 1, 5) = <<"p", "a", "g", "e", "=">>
    /\ IsDigits(SubSeq(segment, 6, Len(segment)))
    /\ ParseInt(SubSeq(segment, 6, Len(segment)), 0) = n

\* segment reads key=value and decodes to the stored entry
IsPair(segment, entry) ==
    /\ CountChar(segment, "=") = 1
    /\ LET parts == SplitAt(segment, "=", <<>>)
       IN  /\ decodeURIComponent(parts[1]) = entry.key
           /\ decodeURIComponent(parts[2]) = entry.value

\* C17: buildQueryString returns the empty string when page <= 0 and no
\* parameter is stored; otherwise the string starts with its only "?", its
\* first "&"-separated segment is page=N exactly when page > 0, and the
\* segments after it are the stored parameters as key=value, in order, each
\* exactly once.
C17_QueryStringShape ==
    builderLast = "buildQueryString" =>
        LET n == Len(queryParameters)
            off == IF page > 0 THEN 1 ELSE 0
            segments == SplitAt(Tail(queryString), "&", <<>>)
        IN  IF page <= 0 /\ n = 0
            THEN queryString = <<>>
            ELSE /\ queryString # <<>>
                 /\ Head(queryString) = "?"
                 /\ CountChar(queryString, "?") = 1
                 /\ Len(segments) = n + off
                 /\ (page > 0 <=> IsPageSegment(segments[1], page))
                 /\ \A i \in 1..n :
                        /\ IsPair(segments[i + off], queryParameters[i])
                        /\ Cardinality({j \in (1 + off)..Len(segments) :
                               IsPair(segments[j], queryParameters[i])}) = 1

C17_Witness ==
    /\ builderLast = "buildQueryString"
    /\ page > 9
    /\ Len(queryParameters) = 2
    /\ \E i \in 1..2 : CountChar(queryParameters[i].key, "&") = 1
    /\ CountChar(queryString, "&") = 2

\* C18: from a new builder, over incrementPage, decrementPage,
\* resetPageNumber and resetQueryParams the page is never negative, a page
\* that has reached 1 never falls below 1, and decrementPage lowers the page
\* by one when it is greater than 1 and leaves it unchanged otherwise.
C18_PageNeverFallsBack ==
    [][/\ page >= 0
       /\ page' >= 0
       /\ (page >= 1 => page' >= 1)
       /\ (builderLast' = "decrementPage" =>
               page' = IF page > 1 THEN page - 1 ELSE page)]_vars

C18_Witness ==
    /\ builderLast = "decrementPage"
    /\ page = 1

\* C21: setUserLocationCirclePosition leaves an initialized circle visible
\* and centered on the given coordinate and does nothing without a circle;
\* hideUserLocationCircle leaves the circle not visible with its center
\* unchanged, a second call changes nothing more, and without a circle it
\* does nothing.
C21_CirclePositionAndHide ==
    [][/\ hideUserLocationCircle(hideUserLocationCircle(Fields))
              = hideUserLocationCircle(Fields)
       /\ (last'.event = "setUserLocationCirclePosition" =>
              /\ map' = map
              /\ userMarker' = userMarker
              /\ IF userLocationCircle.isNull
                 THEN userLocationCircle' = userLocationCircle /\ trace' = <<>>
                 ELSE CircleAt(userLocationCircle', last'.arg))
       /\ (last'.event = "hideUserLocationCircle" =>
              /\ map' = map
              /\ userMarker' = userMarker
              /\ userLocationCircle' =
                     [userLocationCircle EXCEPT !.visible = FALSE]
              /\ (userLocationCircle.isNull => trace' = <<>>)
              /\ (last.event = "hideUserLocationCircle" =>
                     view' = view /\ trace' = <<>>))]_vars

\* a second hideUserLocationCircle in a row, on a circle that had been shown
C21_Witness ==
    /\ last.event = "hideUserLocationCircle"
    /\ trace = <<>>
    /\ ~userLocationCircle.isNull
    /\ ~userLocationCircle.visible
    /\ userLocationCircle.center \in Coords
    /\ ~userMarker.isNull

\* C23: in every reachable state the accuracy circle is visible only if the
\* user marker is attached to the map, and then the circle's center is the
\* marker's position.
C23_MarkerAndCircleAgree ==
    (~userLocationCircle.isNull /\ userLocationCircle.visible) =>
        MarkerAt(userMarker, userLocationCircle.center)

\* C22: after any sequence of one or more addMarkerClickListener calls on a
\* marker, with onMarkerClickCallback set, one click on that marker invokes
\* onMarkerClickCallback exactly once, with that marker as argument.
C22_ClickInvokesOnce ==
    (/\ markerLast.event = "click"
     /\ onMarkerClickCallback
     /\ pointMarkers[markerLast.marker].listeners >= 1) =>
        markerLast.calls =
            <<[op |-> "onMarkerClickCallback", arg |-> markerLast.marker]>>

====
